---- MODULE Spec2Model ----
(***************************************************************************)
(* Resumable bulk migration of local projects, tasks, PR merges and        *)
(* workspaces into the remote store.                                       *)
(*                                                                         *)
(*   crates/db/src/models/migration_state.rs        the state store        *)
(*   crates/services/src/services/migration/mod.rs  MigrationService       *)
(*   crates/services/src/services/remote_client.rs  RemoteClient           *)
(*   crates/remote/src/db/migration.rs              the remote bulk insert *)
(*                                                                         *)
(* A run is a sequential process; every await of the service is a step,    *)
(* so that a crash, a storage error or a remote failure can fall between   *)
(* any two writes.                                                         *)
(***************************************************************************)
EXTENDS Integers, Sequences, FiniteSets, TLC

\* ------------------------------------------------------------------ bounds
\* BATCH_SIZE is 100 in mod.rs:25; the model cuts batches of 2 so that a
\* phase has more than one batch with a handful of records.
BATCH_SIZE == 2
\* number of events of a behaviour: invocations of run_migration and
\* resume_migration, faults (crash, storage error, short response, the
\* failing attempts of one remote call) and direct state-store operations
MaxEvents == 3

\* backon: .with_max_times(2), the retries after the first attempt
MAX_TIMES == 2

\* remote_id IS NULL / error_message IS NULL
NULL == 0
NoMessage == <<>>

\* ------------------------------------------------------------- vocabulary
EntityType == {"project", "task", "prmerge", "workspace"}
MigrationStatus == {"pending", "migrated", "failed", "skipped"}
PhaseOrder == <<"project", "task", "prmerge", "workspace">>

Range(s) == {s[i] : i \in DOMAIN s}
Min(a, b) == IF a < b THEN a ELSE b
Take(s, n) == SubSeq(s, 1, Min(n, Len(s)))
Drop(s, n) == SubSeq(s, Min(n, Len(s)) + 1, Len(s))

\* ------------------------------------------------------------- local data
\* The local sqlite tables read by the migrators, in find_all order.
SmallData ==
    [projects   |-> << [id |-> "p1"], [id |-> "p2"] >>,
     tasks      |-> << [id |-> "t1", project_id |-> "p2"],
                       [id |-> "t2", project_id |-> "p1"],
                       [id |-> "t3", project_id |-> "p1"] >>,
     workspaces |-> << [id |-> "w1", task_id |-> "t2"] >>,
     pr_merges  |-> << [id |-> "m1", workspace_id |-> "w1"] >>]

\* four projects and five tasks, two of them of project p4
ScenarioData ==
    [projects   |-> << [id |-> "p1"], [id |-> "p2"], [id |-> "p3"],
                       [id |-> "p4"] >>,
     tasks      |-> << [id |-> "t1", project_id |-> "p1"],
                       [id |-> "t2", project_id |-> "p4"],
                       [id |-> "t3", project_id |-> "p2"],
                       [id |-> "t4", project_id |-> "p3"],
                       [id |-> "t5", project_id |-> "p4"] >>,
     workspaces |-> << [id |-> "w1", task_id |-> "t1"] >>,
     pr_merges  |-> << [id |-> "m1", workspace_id |-> "w1"] >>]

VARIABLES
    local,              \* the local tables (projects, tasks, workspaces, pr_merges)
    remote_project_id,  \* projects.remote_project_id of the local store
    migration_state,    \* the rows of table migration_state
    nextStateId,        \* source of fresh MigrationState.id values
    remote,             \* the records of the remote store, in creation order
    pc,                 \* position of the running migration, "idle" if none
    project_ids,        \* run_migration's project_ids
    phase,              \* entity type being migrated
    pending,            \* pending_* records not yet cut into a batch
    chunk,              \* the batch being migrated
    idx,                \* loop index inside the batch
    requests,           \* requests of the batch
    request_ids,        \* request_*_ids of the batch
    response,           \* BulkMigrateResponse.ids
    attempts,           \* HTTP attempts made for the current call
    report,             \* the MigrationReport being built / returned
    outcome,            \* how the last invocation ended
    calls,              \* bulk-create calls issued by the current / last run
    allFull,            \* every response of the run had one id per request
    follows,            \* the run repeats a returned, fully answered run
    prev,               \* scope of the last returned fully answered run
    mode,               \* "run" or "resume": how the current / last run began
    before,             \* outcome of the invocation before the current one
    startState,         \* migration_state when the run began its first phase
    other,              \* the invocation suspended at an await while another runs
    lastOp,             \* the store operation or get_status just made, and its result
    last_error,         \* error of the last failed attempt or store call of the run
    credentials,        \* the auth context holds credentials
    server,             \* the remote server: its handler's position and its database
    eventsLeft          \* events the behaviour may still take

runVars == <<pc, project_ids, phase, pending, chunk, idx, requests,
             request_ids, response, attempts>>
vars == <<local, remote_project_id, migration_state, nextStateId, remote,
          pc, project_ids, phase, pending, chunk, idx, requests,
          request_ids, response, attempts, report, outcome, calls,
          allFull, follows, prev, mode, before, startState, other,
          lastOp, last_error, credentials, server, eventsLeft>>

\* ------------------------------------------------------------ local reads
\* Task::find_by_id / Workspace::find_by_id: the matching rows (none or one)
TaskById(id) == {t \in Range(local.tasks) : t.id = id}
WorkspaceById(id) == {w \in Range(local.workspaces) : w.id = id}
PrMergeById(id) == {m \in Range(local.pr_merges) : m.id = id}

TheTask(id) == CHOOSE t \in TaskById(id) : TRUE
TheWorkspace(id) == CHOOSE w \in WorkspaceById(id) : TRUE
ThePrMerge(id) == CHOOSE m \in PrMergeById(id) : TRUE

Ids(s) == [i \in DOMAIN s |-> s[i].id]

ProjectIds == Range(Ids(local.projects))

\* the project-id sets a request may select
ScopeChoices ==
    IF local = SmallData
       THEN {{"p1"}, {"p1", "p2"}}
       ELSE {{"p1", "p2", "p3"}, {"p1", "p2", "p3", "p4"}, {"p4"}}

\* ------------------------------------------------------------ state store
NewRow(id, et, lid) ==
    [id |-> id, entity_type |-> et, local_id |-> lid, remote_id |-> NULL,
     status |-> "pending", error_message |-> NoMessage, attempt_count |-> 0]

Matches(ms, et, lid) == {r \in ms : r.entity_type = et /\ r.local_id = lid}

\* find_by_entity: fetch_optional, the set holds the row if there is one
find_by_entity(ms, et, lid) == Matches(ms, et, lid)

find_by_entity_type(ms, et) == {r \in ms : r.entity_type = et}

find_by_status(ms, st) == {r \in ms : r.status = st}

\* mutant: the WHERE clause without status = 'migrated'
get_remote_id_anyStatus(ms, et, lid) ==
    LET m == Matches(ms, et, lid)
    IN  IF m = {} THEN NULL ELSE (CHOOSE r \in m : TRUE).remote_id

\* get_remote_id: NULL stands for None (record.flatten())
get_remote_id(ms, et, lid) ==
    LET m == {r \in Matches(ms, et, lid) : r.status = "migrated"}
    IN  IF m = {} THEN NULL ELSE (CHOOSE r \in m : TRUE).remote_id

\* create: plain INSERT; the unique index on (entity_type, local_id) that
\* upsert's ON CONFLICT target requires rejects a second row for the key.
create_ok(ms, et, lid) == Matches(ms, et, lid) = {}
create(ms, id, et, lid) == ms \cup {NewRow(id, et, lid)}

\* mutant: every row is keyed with EntityType::Project
upsert_projectKey(ms, id, et, lid) ==
    IF Matches(ms, "project", lid) = {}
       THEN ms \cup {NewRow(id, "project", lid)} ELSE ms

\* mutant: a plain INSERT without the ON CONFLICT clause and without the
\* unique index
upsert_plainInsert(ms, id, et, lid) == ms \cup {NewRow(id, et, lid)}

\* mutant: the ON CONFLICT branch resets the row as reset_failed would
upsert_resetsRow(ms, id, et, lid) ==
    IF Matches(ms, et, lid) = {}
       THEN ms \cup {NewRow(id, et, lid)}
       ELSE {IF r \in Matches(ms, et, lid)
                THEN [r EXCEPT !.status = "pending", !.error_message = NoMessage]
                ELSE r : r \in ms}

\* upsert: INSERT .. ON CONFLICT (entity_type, local_id) DO UPDATE SET
\* updated_at; the timestamps are not part of the model
upsert(ms, id, et, lid) ==
    IF Matches(ms, et, lid) = {} THEN ms \cup {NewRow(id, et, lid)} ELSE ms

\* mutant: the UPDATE sets the status and forgets remote_id
mark_migrated_statusOnly(ms, et, lid, rid) ==
    {IF r \in Matches(ms, et, lid)
        THEN [r EXCEPT !.status = "migrated", !.error_message = NoMessage]
        ELSE r : r \in ms}

mark_migrated(ms, et, lid, rid) ==
    {IF r \in Matches(ms, et, lid)
        THEN [r EXCEPT !.status = "migrated", !.remote_id = rid,
                       !.error_message = NoMessage]
        ELSE r : r \in ms}

\* mutant: the UPDATE leaves attempt_count alone
mark_failed_noCount(ms, et, lid, msg) ==
    {IF r \in Matches(ms, et, lid)
        THEN [r EXCEPT !.status = "failed", !.error_message = msg]
        ELSE r : r \in ms}

mark_failed(ms, et, lid, msg) ==
    {IF r \in Matches(ms, et, lid)
        THEN [r EXCEPT !.status = "failed", !.error_message = msg,
                       !.attempt_count = @ + 1]
        ELSE r : r \in ms}

mark_skipped(ms, et, lid, reason) ==
    {IF r \in Matches(ms, et, lid)
        THEN [r EXCEPT !.status = "skipped", !.error_message = reason]
        ELSE r : r \in ms}

\* result.rows_affected(): the rows the WHERE clause selected
rows_affected(rows) == Cardinality(rows)

\* mutant: WHERE status <> 'migrated' instead of WHERE status = 'failed'
reset_failed_unfinished(ms) ==
    {IF r.status # "migrated"
        THEN [r EXCEPT !.status = "pending", !.error_message = NoMessage]
        ELSE r : r \in ms}

reset_failed(ms) ==
    {IF r.status = "failed"
        THEN [r EXCEPT !.status = "pending", !.error_message = NoMessage]
        ELSE r : r \in ms}

clear_all(ms) == {}

\* ------------------------------------------------------------------ report
EmptyEntityReport ==
    [total |-> 0, migrated |-> 0, failed |-> 0, skipped |-> 0, errors |-> <<>>]

\* MigrationReport::default()
DefaultReport ==
    [projects |-> EmptyEntityReport, tasks |-> EmptyEntityReport,
     pr_merges |-> EmptyEntityReport, workspaces |-> EmptyEntityReport,
     warnings |-> <<>>]

SectionOf(et) ==
    CASE et = "project" -> "projects"
      [] et = "task" -> "tasks"
      [] et = "prmerge" -> "pr_merges"
      [] OTHER -> "workspaces"

NoOutcome == [kind |-> "none", error |-> "none", phase |-> "none"]

\* ORDER BY created_at ASC: rows in the order of their creation
RECURSIVE by_created_at(_)
by_created_at(rows) ==
    IF rows = {} THEN <<>>
    ELSE LET first == CHOOSE r \in rows : \A q \in rows : r.id <= q.id
         IN  <<first>> \o by_created_at(rows \ {first})

CountStatus(states, st) ==
    Len(SelectSeq(states, LAMBDA r : r.status = st))

\* mutant: Pending rows are counted as failed
entity_report_from_states_pendingFailed(states) ==
    LET failed == SelectSeq(states, LAMBDA r :
                      r.status = "failed" /\ r.error_message # NoMessage)
    IN  [total |-> Len(states),
         migrated |-> CountStatus(states, "migrated"),
         failed |-> CountStatus(states, "failed") + CountStatus(states, "pending"),
         skipped |-> CountStatus(states, "skipped"),
         errors |-> [i \in DOMAIN failed |->
                       [local_id |-> failed[i].local_id,
                        error |-> failed[i].error_message]]]

\* entity_report_from_states: total is the number of states, one counter
\* per status but Pending, one errors entry per Failed state with a message
entity_report_from_states(states) ==
    LET failed == SelectSeq(states, LAMBDA r :
                      r.status = "failed" /\ r.error_message # NoMessage)
    IN  [total |-> Len(states),
         migrated |-> CountStatus(states, "migrated"),
         failed |-> CountStatus(states, "failed"),
         skipped |-> CountStatus(states, "skipped"),
         errors |-> [i \in DOMAIN failed |->
                       [local_id |-> failed[i].local_id,
                        error |-> failed[i].error_message]]]

\* get_status: four find_by_entity_type reads; only the project rows are
\* filtered by project_ids
get_status(ms, S) ==
    LET projects == by_created_at(find_by_entity_type(ms, "project"))
        tasks == by_created_at(find_by_entity_type(ms, "task"))
        pr_merges == by_created_at(find_by_entity_type(ms, "prmerge"))
        workspaces == by_created_at(find_by_entity_type(ms, "workspace"))
        filtered == SelectSeq(projects, LAMBDA r : r.local_id \in S)
    IN  [projects |-> entity_report_from_states(filtered),
         tasks |-> entity_report_from_states(tasks),
         pr_merges |-> entity_report_from_states(pr_merges),
         workspaces |-> entity_report_from_states(workspaces),
         warnings |-> <<>>]

\* ------------------------------------------------------------ scoping
\* migrate_projects: all_projects filtered by project_ids
scoped_projects(S) ==
    Ids(SelectSeq(local.projects, LAMBDA p : p.id \in S))

\* mutant: every local task is taken, the project filter is missing
scoped_tasks_all(S) == Ids(local.tasks)

\* migrate_tasks: all_tasks filtered by the task's project_id
scoped_tasks(S) ==
    Ids(SelectSeq(local.tasks, LAMBDA t : t.project_id \in S))

\* migrate_pr_merges: workspace found, its task found, task's project in S
scoped_pr_merges(S) ==
    Ids(SelectSeq(local.pr_merges, LAMBDA m :
        /\ WorkspaceById(m.workspace_id) # {}
        /\ TaskById(TheWorkspace(m.workspace_id).task_id) # {}
        /\ TheTask(TheWorkspace(m.workspace_id).task_id).project_id \in S))

\* migrate_workspaces: task found and the task's project in S
scoped_workspaces(S) ==
    Ids(SelectSeq(local.workspaces, LAMBDA w :
        /\ TaskById(w.task_id) # {}
        /\ TheTask(w.task_id).project_id \in S))

InScope(et, S) ==
    CASE et = "project" -> scoped_projects(S)
      [] et = "task" -> scoped_tasks(S)
      [] et = "prmerge" -> scoped_pr_merges(S)
      [] OTHER -> scoped_workspaces(S)

\* mutant: the lookup always passes EntityType::Project
AlreadyMigrated_projectKey(ms, et, lid) ==
    \E r \in find_by_entity(ms, "project", lid) : r.status = "migrated"

\* mutant: a record that has a row, whatever its status, counts as done
AlreadyMigrated_anyRow(ms, et, lid) == find_by_entity(ms, et, lid) # {}
\* the "existing.status == Migrated" test of the pending_* loops
AlreadyMigrated(ms, et, lid) ==
    \E r \in find_by_entity(ms, et, lid) : r.status = "migrated"

\* mutant: the Migrated test is missing, every loaded record is pending
pending_records_all(ms, et, S) == InScope(et, S)

\* pending_projects / pending_tasks / pending_merges / pending_workspaces
pending_records(ms, et, S) ==
    SelectSeq(InScope(et, S), LAMBDA lid : ~AlreadyMigrated(ms, et, lid))

\* --------------------------------------------------------------- requests
\* src stands for the copied content (name, title, url, local_workspace_id)
\* and tells which local record a remote record was made from.
Request(lid, pid, iid) == [src |-> lid, project_id |-> pid, issue_id |-> iid]

MigrateProjectRequest(lid) == Request(lid, NULL, NULL)

Skip(reason) == [ok |-> FALSE, request |-> Request("", NULL, NULL), reason |-> reason]
Push(req) == [ok |-> TRUE, request |-> req, reason |-> NoMessage]

\* mutant: the request is pushed whatever get_remote_id returned
resolve_task_noCheck(ms, lid) ==
    LET task == TheTask(lid)
        remote_project == get_remote_id(ms, "project", task.project_id)
    IN  Push(Request(lid, remote_project, NULL))

\* migrate_task_batch, the body of the second loop
resolve_task(ms, lid) ==
    LET task == TheTask(lid)
        remote_project == get_remote_id(ms, "project", task.project_id)
    IN  IF remote_project # NULL
           THEN Push(Request(lid, remote_project, NULL))
           ELSE Skip(<<"Project", task.project_id, "not migrated">>)

\* mutant: the issue id is looked up under the workspace's own key
resolve_pr_merge_workspaceKey(ms, lid) ==
    LET pr_merge == ThePrMerge(lid)
        workspace == WorkspaceById(pr_merge.workspace_id)
        issue_id == IF workspace = {} THEN NULL
                    ELSE get_remote_id(ms, "workspace", pr_merge.workspace_id)
    IN  IF issue_id # NULL
           THEN Push(Request(lid, NULL, issue_id))
           ELSE Skip(<<"Cannot resolve issue for PR merge", lid,
                       "workspace", pr_merge.workspace_id>>)
\* migrate_pr_merge_batch, the body of the second loop
resolve_pr_merge(ms, lid) ==
    LET pr_merge == ThePrMerge(lid)
        workspace == WorkspaceById(pr_merge.workspace_id)
        issue_id == IF workspace = {} THEN NULL
                    ELSE get_remote_id(ms, "task",
                             TheWorkspace(pr_merge.workspace_id).task_id)
    IN  IF issue_id # NULL
           THEN Push(Request(lid, NULL, issue_id))
           ELSE Skip(<<"Cannot resolve issue for PR merge", lid,
                       "workspace", pr_merge.workspace_id>>)

\* mutant: the issue id is optional, a workspace whose task is tracked but
\* not Migrated is pushed without it
resolve_workspace_optionalIssue(ms, lid) ==
    LET workspace == TheWorkspace(lid)
    IN  IF TaskById(workspace.task_id) = {}
           THEN Skip(<<"Task", workspace.task_id, "not found for workspace">>)
        ELSE LET task == TheTask(workspace.task_id)
                 remote_project == get_remote_id(ms, "project", task.project_id)
                 remote_issue == get_remote_id(ms, "task", workspace.task_id)
             IN  IF remote_project = NULL
                    THEN Skip(<<"Project", task.project_id, "not migrated">>)
                 ELSE IF remote_issue = NULL /\ Matches(ms, "task", workspace.task_id) = {}
                    THEN Skip(<<"Task", workspace.task_id, "not migrated">>)
                 ELSE Push(Request(lid, remote_project, remote_issue))
\* migrate_workspace_batch, the body of the second loop
resolve_workspace(ms, lid) ==
    LET workspace == TheWorkspace(lid)
    IN  IF TaskById(workspace.task_id) = {}
           THEN Skip(<<"Task", workspace.task_id, "not found for workspace">>)
        ELSE LET task == TheTask(workspace.task_id)
                 remote_project == get_remote_id(ms, "project", task.project_id)
                 remote_issue == get_remote_id(ms, "task", workspace.task_id)
             IN  IF remote_project = NULL
                    THEN Skip(<<"Project", task.project_id, "not migrated">>)
                 ELSE IF remote_issue = NULL
                    THEN Skip(<<"Task", workspace.task_id, "not migrated">>)
                 ELSE Push(Request(lid, remote_project, remote_issue))

Resolve(ms, et, lid) ==
    CASE et = "task" -> resolve_task(ms, lid)
      [] et = "prmerge" -> resolve_pr_merge(ms, lid)
      [] OTHER -> resolve_workspace(ms, lid)

\* format!("Skipped task {}: {}", task.id, error_msg)
Warning(et, lid, reason) ==
    << CASE et = "task" -> "Skipped task"
         [] et = "prmerge" -> "Skipped PR"
         [] OTHER -> "Skipped workspace", lid >> \o reason

\* ----------------------------------------------------------- remote store
\* MigrationRepository::bulk_create_*: one INSERT .. RETURNING id, every
\* item becomes a record with a fresh id; ids come back in item order.
bulk_create(rs, et, items) ==
    rs \o [i \in 1..Len(items) |->
              [kind |-> et, src |-> items[i].src,
               project_id |-> items[i].project_id,
               issue_id |-> items[i].issue_id]]

returned_ids(rs, items) == [i \in 1..Len(items) |-> Len(rs) + i]

\* no invocation is suspended
NoOther == [saved |-> FALSE]

\* no operation was made since the last invocation began
NoOp == [name |-> "none"]

\* ------------------------------------------------------------------- Init
\* the remote server at start: no request in progress, an empty database
NoRequest == [kind |-> "none", items |-> <<>>]
NoReply == [status |-> "none", ids |-> <<>>]

IdleServer ==
    [pc |-> "idle", req |-> NoRequest, unchecked |-> {}, tx |-> <<>>,
     ids |-> <<>>, idx |-> 1, db |-> <<>>, nextId |-> 1, reply |-> NoReply]

InitRest ==
    /\ remote_project_id = [p \in ProjectIds |-> NULL]
    /\ migration_state = {}
    /\ nextStateId = 1
    /\ remote = <<>>
    /\ pc = "idle"
    /\ project_ids = {}
    /\ phase = "none"
    /\ pending = <<>>
    /\ chunk = <<>>
    /\ idx = 1
    /\ requests = <<>>
    /\ request_ids = <<>>
    /\ response = <<>>
    /\ attempts = 0
    /\ report = DefaultReport
    /\ outcome = NoOutcome
    /\ calls = <<>>
    /\ allFull = TRUE
    /\ follows = FALSE
    /\ prev = [ok |-> FALSE, project_ids |-> {}]
    /\ mode = "none"
    /\ before = NoOutcome
    /\ startState = {}
    /\ other = NoOther
    /\ lastOp = NoOp
    /\ last_error = "none"
    /\ credentials = TRUE
    /\ server = IdleServer
    /\ eventsLeft = MaxEvents

Init ==
    /\ local = SmallData
    /\ InitRest

InitScenario ==
    /\ local = ScenarioData
    /\ InitRest

\* ---------------------------------------------------------------- batches
\* mutant: the chunk is one record longer than the stride of the cursor
next_chunk_oneMore(pend) == Take(pend, BATCH_SIZE + 1)

\* pending.chunks(BATCH_SIZE): the next chunk and what is left after it
next_chunk(pend) == Take(pend, BATCH_SIZE)

\* mutant: the cursor moves one past the chunk
after_chunk_offByOne(pend) == Drop(pend, BATCH_SIZE + 1)

after_chunk(pend) == Drop(pend, BATCH_SIZE)

\* ------------------------------------------------------- control helpers
storeVars == <<server, local, credentials, remote_project_id, migration_state,
              nextStateId, remote>>
ghostRun == <<follows, mode, before, startState>>
budgets == <<eventsLeft>>

\* mutant: PR merges are migrated before the tasks they refer to
NextPhase_mergesFirst(et) ==
    CASE et = "project" -> "prmerge"
      [] et = "prmerge" -> "task"
      [] OTHER -> "workspace"

NextPhase(et) ==
    CASE et = "project" -> "task"
      [] et = "task" -> "prmerge"
      [] OTHER -> "workspace"

NoBatch ==
    /\ chunk' = <<>>
    /\ idx' = 1
    /\ requests' = <<>>
    /\ request_ids' = <<>>
    /\ response' = <<>>
    /\ attempts' = 0

\* the invocation ends: Ok(report), Err(..) by `?`, or the process dies
Ended(o, pv) ==
    /\ pc' = "idle"
    /\ phase' = "none"
    /\ pending' = <<>>
    /\ NoBatch
    /\ outcome' = o
    /\ prev' = pv
    /\ UNCHANGED project_ids

NoPrev == [ok |-> FALSE, project_ids |-> {}]

\* `for chunk in pending.chunks(BATCH_SIZE)`, then the next phase of
\* run_migration, then Ok(report)
Continue(pend, full) ==
    IF pend # <<>>
       THEN /\ pc' = "upsert"
            /\ chunk' = next_chunk(pend)
            /\ pending' = after_chunk(pend)
            /\ idx' = 1
            /\ requests' = <<>>
            /\ request_ids' = <<>>
            /\ response' = <<>>
            /\ attempts' = 0
            /\ UNCHANGED <<phase, project_ids, outcome, prev>>
    ELSE IF phase # "workspace"
       THEN /\ pc' = "load"
            /\ phase' = NextPhase(phase)
            /\ pending' = <<>>
            /\ NoBatch
            /\ UNCHANGED <<project_ids, outcome, prev>>
    ELSE Ended([kind |-> "report", error |-> "none", phase |-> "none"],
               [ok |-> full, project_ids |-> project_ids])

\* Err(e) returned through `?`: the report is dropped
Abort(kind, err) ==
    /\ Ended([kind |-> kind, error |-> err, phase |-> phase], NoPrev)
    /\ report' = DefaultReport

\* ------------------------------------------------------------ invocations
\* the body of an invocation up to its first await
Invoke(S, m, ms) ==
    /\ migration_state' = ms
    /\ startState' = ms
    /\ project_ids' = S
    /\ pc' = "load"
    /\ phase' = "project"
    /\ pending' = <<>>
    /\ NoBatch
    /\ report' = DefaultReport
    /\ outcome' = NoOutcome
    /\ before' = outcome
    /\ mode' = m
    /\ calls' = <<>>
    /\ allFull' = TRUE
    /\ follows' = (m = "run" /\ prev.ok /\ prev.project_ids = S)
    /\ prev' = NoPrev
    /\ lastOp' = NoOp
    /\ last_error' = "none"
    /\ UNCHANGED <<server, local, credentials, remote_project_id, nextStateId, remote>>

\* an invocation is one event of the explored behaviours
Begin(S, m, ms) ==
    /\ eventsLeft > 0
    /\ eventsLeft' = eventsLeft - 1
    /\ Invoke(S, m, ms)

\* an invocation made while no other is in progress
StartRun(S, m, ms) ==
    /\ pc = "idle"
    /\ Begin(S, m, ms)
    /\ UNCHANGED other

run_migration(S) == StartRun(S, "run", migration_state)

\* mutant: resume_migration goes straight to run_migration
resume_migration_noReset(S) == StartRun(S, "resume", migration_state)

\* mutant: only the Failed rows of the selected scope are reset
resume_migration_scopedReset(S) ==
    StartRun(S, "resume",
             {IF r.status = "failed" /\ r.local_id \in Range(InScope(r.entity_type, S))
                 THEN [r EXCEPT !.status = "pending", !.error_message = NoMessage]
                 ELSE r : r \in migration_state})
resume_migration(S) == StartRun(S, "resume", reset_failed(migration_state))

\* mutant: an already-Migrated record is counted in total only
LoadPhase_noSkipCount ==
    /\ pc = "load"
    /\ LET records == InScope(phase, project_ids)
           pend == pending_records(migration_state, phase, project_ids)
           sec == SectionOf(phase)
       IN  /\ report' = [report EXCEPT ![sec].total = Len(records)]
           /\ Continue(pend, allFull)
    /\ UNCHANGED <<storeVars, calls, allFull, ghostRun, last_error, other, lastOp, budgets>>

\* the first half of migrate_projects / migrate_tasks / migrate_pr_merges /
\* migrate_workspaces: load, scope, count, drop the Migrated ones
LoadPhase ==
    /\ pc = "load"
    /\ LET records == InScope(phase, project_ids)
           pend == pending_records(migration_state, phase, project_ids)
           sec == SectionOf(phase)
       IN  /\ report' = [report EXCEPT
                           ![sec].total = Len(records),
                           ![sec].skipped = @ + (Len(records) - Len(pend))]
           /\ Continue(pend, allFull)
    /\ UNCHANGED <<storeVars, calls, allFull, ghostRun, last_error, other, lastOp, budgets>>

\* migrate_*_batch, first loop: one upsert per step
UpsertStep ==
    /\ pc = "upsert"
    /\ LET lid == chunk[idx]
       IN  /\ migration_state' = upsert(migration_state, nextStateId, phase, lid)
           /\ nextStateId' = IF Matches(migration_state, phase, lid) = {}
                                THEN nextStateId + 1 ELSE nextStateId
    /\ IF idx < Len(chunk)
          THEN /\ idx' = idx + 1
               /\ UNCHANGED <<pc, requests, request_ids>>
       ELSE IF phase = "project"
          THEN /\ pc' = "send"
               /\ idx' = 1
               /\ requests' = [i \in DOMAIN chunk |-> MigrateProjectRequest(chunk[i])]
               /\ request_ids' = chunk
       ELSE /\ pc' = "resolve"
            /\ idx' = 1
            /\ UNCHANGED <<requests, request_ids>>
    /\ UNCHANGED <<server, local, credentials, remote_project_id, remote, project_ids, phase,
                   pending, chunk, response, attempts, report, outcome,
                   calls, allFull, prev, ghostRun, last_error, other, lastOp, budgets>>

\* migrate_*_batch, second loop: resolve the dependencies of one record
ResolveStep ==
    /\ pc = "resolve"
    /\ LET lid == chunk[idx]
           res == Resolve(migration_state, phase, lid)
           sec == SectionOf(phase)
           reqs == IF res.ok THEN Append(requests, res.request) ELSE requests
           rids == IF res.ok THEN Append(request_ids, lid) ELSE request_ids
       IN  /\ migration_state' =
                 IF res.ok THEN migration_state
                 ELSE mark_skipped(migration_state, phase, lid, res.reason)
           /\ report' =
                 IF res.ok THEN report
                 ELSE [report EXCEPT
                         ![sec].skipped = @ + 1,
                         !.warnings = Append(@, Warning(phase, lid, res.reason))]
           /\ IF idx < Len(chunk)
                 THEN /\ idx' = idx + 1
                      /\ requests' = reqs
                      /\ request_ids' = rids
                      /\ UNCHANGED <<pc, phase, pending, chunk, response,
                                     attempts, outcome, prev, project_ids>>
              ELSE IF reqs = <<>>
                 THEN Continue(pending, allFull)
              ELSE /\ pc' = "send"
                   /\ idx' = 1
                   /\ requests' = reqs
                   /\ request_ids' = rids
                   /\ UNCHANGED <<phase, pending, chunk, response, attempts,
                                  outcome, prev, project_ids>>
    /\ UNCHANGED <<server, local, credentials, remote_project_id, nextStateId, remote, calls,
                   allFull, ghostRun, last_error, other, lastOp, budgets>>

\* ------------------------------------------------------------ remote call
\* post_authed -> send -> send_internal: the first attempt of a call is
\* when the bulk-create call is issued
LogCall ==
    calls' = IF attempts = 0
                THEN Append(calls, [kind |-> phase, ids |-> request_ids,
                                    items |-> requests])
                ELSE calls

\* mutant: the error of the last attempt is logged and the run goes on with
\* the next batch
RetryOrAbort_swallow(err) ==
    IF attempts < MAX_TIMES
       THEN /\ attempts' = attempts + 1
            /\ UNCHANGED <<pc, project_ids, phase, pending, chunk, idx,
                           requests, request_ids, response, report,
                           outcome, prev>>
       ELSE /\ Continue(pending, FALSE)
            /\ UNCHANGED report

\* .retry(max_times).when(should_retry): retried or given up
RetryOrAbort(err) ==
    IF attempts < MAX_TIMES
       THEN /\ attempts' = attempts + 1
            /\ UNCHANGED <<pc, project_ids, phase, pending, chunk, idx,
                           requests, request_ids, response, report,
                           outcome, prev>>
       ELSE Abort("error", err)

\* mutant: every error is retried
should_retry_always(err) == TRUE

\* RemoteClientError::should_retry: Transport, Timeout and Http 500..=599
should_retry(err) == err \in {"transport", "timeout", "http5xx"}

\* an attempt returned Err(err): .when(should_retry) decides on the retry
FailedAttempt(err) ==
    /\ last_error' = err
    /\ IF should_retry(err) THEN RetryOrAbort(err) ELSE Abort("error", err)

\* the failing attempts of one call are one event of the behaviour
FailingAttempt ==
    /\ eventsLeft > 0 \/ attempts > 0
    /\ eventsLeft' = IF attempts = 0 THEN eventsLeft - 1 ELSE eventsLeft

\* 2xx with one id per item
SendOk ==
    /\ pc = "send"
    /\ credentials
    /\ LogCall
    /\ remote' = bulk_create(remote, phase, requests)
    /\ response' = returned_ids(remote, requests)
    /\ attempts' = attempts + 1
    /\ pc' = "mark"
    /\ idx' = 1
    /\ UNCHANGED <<server, local, credentials, remote_project_id, migration_state, nextStateId,
                   project_ids, phase, pending, chunk, requests, request_ids,
                   report, outcome, allFull, prev, ghostRun, last_error, other, lastOp, budgets>>

\* 2xx whose body lists fewer ids than items (BulkMigrateResponse.ids is
\* whatever the peer sent)
SendShort(n) ==
    /\ pc = "send"
    /\ credentials
    /\ eventsLeft > 0
    /\ n < Len(requests)
    /\ LogCall
    /\ remote' = bulk_create(remote, phase, requests)
    /\ response' = Take(returned_ids(remote, requests), n)
    /\ attempts' = attempts + 1
    /\ pc' = "mark"
    /\ idx' = 1
    /\ allFull' = FALSE
    /\ eventsLeft' = eventsLeft - 1
    /\ UNCHANGED <<server, local, credentials, remote_project_id, migration_state, nextStateId,
                   project_ids, phase, pending, chunk, requests, request_ids,
                   report, outcome, prev, ghostRun, last_error, other, lastOp>>

\* the server committed the insert, the client saw Timeout / Transport
SendLost ==
    /\ pc = "send"
    /\ credentials
    /\ FailingAttempt
    /\ LogCall
    /\ remote' = bulk_create(remote, phase, requests)
    /\ FailedAttempt("transport")
    /\ UNCHANGED <<server, local, credentials, remote_project_id, migration_state,
                   nextStateId, allFull, ghostRun, other, lastOp>>

\* nothing inserted: Transport, Timeout or HTTP 5xx
SendTransient ==
    /\ pc = "send"
    /\ credentials
    /\ FailingAttempt
    /\ LogCall
    /\ FailedAttempt("http5xx")
    /\ UNCHANGED <<storeVars, allFull, ghostRun, other, lastOp>>

\* nothing inserted: the server answers 401/403 (Auth) or another 4xx
SendRejected(err) ==
    /\ pc = "send"
    /\ credentials
    /\ eventsLeft > 0
    /\ LogCall
    /\ FailedAttempt(err)
    /\ eventsLeft' = eventsLeft - 1
    /\ UNCHANGED <<storeVars, allFull, ghostRun, other, lastOp>>

\* require_token: get_credentials() is None, Err(RemoteClientError::Auth)
\* before the request is built; nothing is sent
SendUnauthenticated ==
    /\ pc = "send"
    /\ ~credentials
    /\ FailedAttempt("auth")
    /\ UNCHANGED <<storeVars, calls, allFull, ghostRun, other, lastOp, budgets>>

\* ------------------------------------------------------- recording results
ZipLen == Min(Len(request_ids), Len(response))

\* mutant: the ids are zipped with the batch, not with the submitted records
zip_pair_batch(ids, resp, i) == [local_id |-> chunk[i], remote_id |-> resp[i]]

\* the i-th pair of request_ids.iter().zip(response.ids.iter())
zip_pair(ids, resp, i) == [local_id |-> ids[i], remote_id |-> resp[i]]

\* `for (id, remote_id) in request_ids.iter().zip(response.ids.iter())`
MarkStep ==
    /\ pc = "mark"
    /\ idx <= ZipLen
    /\ LET pair == zip_pair(request_ids, response, idx)
       IN  migration_state' =
              mark_migrated(migration_state, phase, pair.local_id, pair.remote_id)
    /\ IF phase = "project"
          THEN /\ pc' = "setlocal"
               /\ UNCHANGED <<idx, report>>
          ELSE /\ idx' = idx + 1
               /\ report' = [report EXCEPT ![SectionOf(phase)].migrated = @ + 1]
               /\ UNCHANGED pc
    /\ UNCHANGED <<server, local, credentials, remote_project_id, nextStateId, remote, project_ids,
                   phase, pending, chunk, requests, request_ids, response,
                   attempts, outcome, calls, allFull, prev, ghostRun, last_error, other, lastOp, budgets>>

\* Project::set_remote_project_id, then report.projects.migrated += 1
SetLocal ==
    /\ pc = "setlocal"
    /\ LET pair == zip_pair(request_ids, response, idx)
       IN  remote_project_id' =
              [remote_project_id EXCEPT ![pair.local_id] = pair.remote_id]
    /\ report' = [report EXCEPT !.projects.migrated = @ + 1]
    /\ idx' = idx + 1
    /\ pc' = "mark"
    /\ UNCHANGED <<server, local, credentials, migration_state, nextStateId, remote, project_ids,
                   phase, pending, chunk, requests, request_ids, response,
                   attempts, outcome, calls, allFull, prev, ghostRun, last_error, other, lastOp, budgets>>

\* the zip is exhausted: Ok(()) of the batch
EndBatch ==
    /\ pc = "mark"
    /\ idx > ZipLen
    /\ Continue(pending, allFull)
    /\ UNCHANGED <<storeVars, report, calls, allFull, ghostRun, last_error, other, lastOp, budgets>>

\* ------------------------------------------------------------------ faults
\* the process dies between two awaits
Crash ==
    /\ pc # "idle"
    /\ eventsLeft > 0
    /\ Abort("crash", "none")
    /\ eventsLeft' = eventsLeft - 1
    /\ UNCHANGED <<storeVars, calls, allFull, ghostRun, last_error, other, lastOp>>

\* mutant: the error of the store call is logged and the run goes on
StorageError_ignored ==
    /\ pc \in {"load", "upsert", "resolve", "mark", "setlocal"}
    /\ eventsLeft > 0
    /\ last_error' = "storage"
    /\ eventsLeft' = eventsLeft - 1
    /\ UNCHANGED <<storeVars, runVars, report, outcome, prev, calls, allFull,
                   ghostRun, other, lastOp>>

\* a state-store or local-store call returns Err: `?` ends the run
StorageError ==
    /\ pc \in {"load", "upsert", "resolve", "mark", "setlocal"}
    /\ eventsLeft > 0
    /\ last_error' = "storage"
    /\ Abort("error", "storage")
    /\ eventsLeft' = eventsLeft - 1
    /\ UNCHANGED <<storeVars, calls, allFull, ghostRun, other, lastOp>>

\* the credentials are cleared (logout, or a refresh the server refused)
ClearCredentials ==
    /\ pc = "idle"
    /\ credentials
    /\ eventsLeft > 0
    /\ credentials' = FALSE
    /\ eventsLeft' = eventsLeft - 1
    /\ UNCHANGED <<server, local, remote_project_id, migration_state, nextStateId,
                   remote, runVars, report, outcome, calls, allFull, prev,
                   ghostRun, last_error, other, lastOp>>

\* ------------------------------------------- state-store operations, direct
OpKeys == {<<"project", "p1">>, <<"task", "t1">>}

StoreOp(name, ms, id, ret) ==
    /\ pc = "idle"
    /\ eventsLeft > 0
    /\ eventsLeft' = eventsLeft - 1
    /\ migration_state' = ms
    /\ nextStateId' = id
    /\ prev' = NoPrev
    /\ lastOp' = [name |-> name, result |-> ret]
    /\ UNCHANGED <<server, local, credentials, remote_project_id, remote, runVars, report,
                   outcome, calls, allFull, ghostRun, last_error, other>>

\* a conflicting create is rejected by the unique index and changes nothing
OpCreate(k) ==
    IF create_ok(migration_state, k[1], k[2])
       THEN StoreOp("create", create(migration_state, nextStateId, k[1], k[2]),
                    nextStateId + 1, NULL)
       ELSE StoreOp("create", migration_state, nextStateId, NULL)

OpUpsert(k) ==
    StoreOp("upsert", upsert(migration_state, nextStateId, k[1], k[2]),
            IF Matches(migration_state, k[1], k[2]) = {}
               THEN nextStateId + 1 ELSE nextStateId, NULL)

OpMarkMigrated(k, rid) ==
    StoreOp("mark_migrated",
            mark_migrated(migration_state, k[1], k[2], rid), nextStateId, NULL)

OpMarkFailed(k) ==
    StoreOp("mark_failed",
            mark_failed(migration_state, k[1], k[2], <<"boom">>), nextStateId,
            NULL)

OpMarkSkipped(k) ==
    StoreOp("mark_skipped",
            mark_skipped(migration_state, k[1], k[2], <<"manual">>),
            nextStateId, NULL)

\* Ok(result.rows_affected())
OpResetFailed ==
    StoreOp("reset_failed", reset_failed(migration_state), nextStateId,
            rows_affected(find_by_status(migration_state, "failed")))

OpClearAll ==
    StoreOp("clear_all", clear_all(migration_state), nextStateId,
            rows_affected(migration_state))

\* mutant: get_status resets the Failed rows before it reads, as resume does
GetStatus_resets(S) ==
    /\ pc = "idle"
    /\ migration_state' = reset_failed(migration_state)
    /\ lastOp' = [name |-> "get_status", project_ids |-> S,
                  result |-> get_status(reset_failed(migration_state), S)]
    /\ UNCHANGED <<server, local, credentials, remote_project_id, nextStateId, remote, runVars,
                   report, outcome, calls, allFull, prev, ghostRun, last_error, other,
                   budgets>>

\* get_status: reads the state store and returns the aggregated report
GetStatus(S) ==
    /\ pc = "idle"
    /\ lastOp' = [name |-> "get_status", project_ids |-> S,
                  result |-> get_status(migration_state, S)]
    /\ UNCHANGED <<storeVars, runVars, report, outcome, calls, allFull,
                   prev, ghostRun, last_error, other, budgets>>

\* ------------------------------------------------------------------- Next
Next ==
    \/ \E S \in ScopeChoices : run_migration(S)
    \/ \E S \in ScopeChoices : resume_migration(S)
    \/ LoadPhase
    \/ UpsertStep
    \/ ResolveStep
    \/ SendOk
    \/ \E n \in 0..(BATCH_SIZE - 1) : SendShort(n)
    \/ SendLost
    \/ SendTransient
    \/ \E err \in {"auth", "http4xx"} : SendRejected(err)
    \/ SendUnauthenticated
    \/ ClearCredentials
    \/ MarkStep
    \/ SetLocal
    \/ EndBatch
    \/ Crash
    \/ StorageError
    \/ \E k \in OpKeys : OpCreate(k)
    \/ \E k \in OpKeys : OpUpsert(k)
    \/ \E k \in OpKeys : OpMarkMigrated(k, 99)
    \/ \E k \in OpKeys : OpMarkFailed(k)
    \/ \E k \in OpKeys : OpMarkSkipped(k)
    \/ OpResetFailed
    \/ OpClearAll
    \/ \E S \in ScopeChoices : GetStatus(S)

Spec == Init /\ [][Next]_vars

\* the fault-free runs over the scenario data
NextScenario ==
    \/ \E S \in ScopeChoices : run_migration(S)
    \/ \E S \in ScopeChoices : resume_migration(S)
    \/ LoadPhase
    \/ UpsertStep
    \/ ResolveStep
    \/ SendOk
    \/ MarkStep
    \/ SetLocal
    \/ EndBatch

SpecScenario == InitScenario /\ [][NextScenario]_vars

\* ------------------------------------------------ recovery by resume
\* the caller repeats resume_migration for the project set of the
\* invocation that ended last
ResumeAgain ==
    /\ pc = "idle"
    /\ mode # "none"
    /\ Invoke(project_ids, "resume", reset_failed(migration_state))
    /\ UNCHANGED <<other, budgets>>

\* the steps a run takes when the remote accepts the batch, and the
\* caller's next resume
Proceed ==
    \/ LoadPhase
    \/ UpsertStep
    \/ ResolveStep
    \/ SendOk
    \/ MarkStep
    \/ SetLocal
    \/ EndBatch
    \/ ResumeAgain

\* runs hit by finitely many remote failures, each followed by resumes
NextRecover ==
    \/ \E S \in ScopeChoices : run_migration(S)
    \/ SendLost
    \/ SendTransient
    \/ \E err \in {"auth", "http4xx"} : SendRejected(err)
    \/ Proceed

\* the run is sequential async code that goes on whenever it can, and the
\* caller keeps resuming
SpecRecover == Init /\ [][NextRecover]_vars /\ WF_vars(Proceed)
\* ------------------------------------------------------ the remote server
\* the four handlers of routes/migration.rs and MigrationRepository, one
\* request at a time
clientVars == <<local, credentials, remote_project_id, migration_state,
                nextStateId, remote, runVars, report, outcome, calls,
                allFull, prev, ghostRun, last_error, other, lastOp>>

EndpointKinds == {"projects", "issues", "pull_requests", "workspaces"}

\* the organizations, projects and issues a request may refer to, and
\* those among them the caller passes the access check for
OrgRefs == {"o1", "o2"}
ProjectRefs == {"rp1", "rp2"}
IssueRefs == {"ri1", "ri2"}
GrantedRefs == {"o1", "rp1", "ri1"}

\* ensure_member_access / ensure_project_access / ensure_issue_access
ensure_access(ref) == ref \in GrantedRefs

MergeStatus == {"Open", "Merged", "Closed", "Unknown"}

\* mutant: Unknown is sent as closed
map_merge_status_unknownClosed(status) ==
    CASE status = "Open" -> "open"
      [] status = "Merged" -> "merged"
      [] status = "Closed" -> "closed"
      [] OTHER -> "closed"

map_merge_status(status) ==
    CASE status = "Open" -> "open"
      [] status = "Merged" -> "merged"
      [] status = "Closed" -> "closed"
      [] status = "Unknown" -> "open"

\* str::to_lowercase on the status names the model sends
to_lowercase(s) ==
    CASE s = "Merged" -> "merged"
      [] s = "Draft" -> "draft"
      [] OTHER -> s

parse_pr_status(s) ==
    CASE to_lowercase(s) = "merged" -> "Merged"
      [] to_lowercase(s) = "closed" -> "Closed"
      [] OTHER -> "Open"

\* status names that do not come from map_merge_status
ForeignNames == {"Merged", "Draft"}

\* a reference an item does not carry
NoRef == "none"

Item(org, project, issue, status, from) ==
    [organization_id |-> org, project_id |-> project, issue_id |-> issue,
     status |-> status, local_status |-> from]

\* the items a request of each kind may carry; local_status remembers the
\* local merge status a pull-request item was made from
ItemsOf(kind) ==
    CASE kind = "projects" ->
            {Item(o, NoRef, NoRef, "", "none") : o \in OrgRefs}
      [] kind = "issues" ->
            {Item(NoRef, p, NoRef, "", "none") : p \in ProjectRefs}
      [] kind = "pull_requests" ->
            {Item(NoRef, NoRef, "ri1", map_merge_status(st), st) : st \in MergeStatus}
               \cup {Item(NoRef, NoRef, "ri1", n, "none") : n \in ForeignNames}
      [] OTHER ->
            {Item(NoRef, p, i, "", "none") : p \in ProjectRefs, i \in {NoRef, "ri2"}}

SeqsUpTo(S, n) == UNION {[1..k -> S] : k \in 0..n}

\* the HashSet each handler collects and checks before the insert
checked_refs(kind, items) ==
    CASE kind = "projects" -> {items[i].organization_id : i \in DOMAIN items}
      [] kind = "pull_requests" -> {items[i].issue_id : i \in DOMAIN items}
      [] OTHER -> {items[i].project_id : i \in DOMAIN items}

\* the rows one INSERT .. SELECT .. FROM UNNEST .. RETURNING id makes
inserted_rows(kind, items, first) ==
    [i \in DOMAIN items |->
        [table |-> kind, id |-> first + i - 1, of |-> NULL,
         organization_id |-> items[i].organization_id,
         project_id |-> items[i].project_id,
         issue_id |-> items[i].issue_id,
         status |-> IF kind = "pull_requests"
                       THEN parse_pr_status(items[i].status) ELSE "",
         sent |-> items[i].status,
         local_status |-> items[i].local_status]]

\* TagRepository::create_default_tags and
\* ProjectStatusRepository::create_default_statuses for one project
default_rows(project) ==
    << [table |-> "tags", id |-> NULL, of |-> project,
        organization_id |-> NoRef, project_id |-> NoRef, issue_id |-> NoRef,
        status |-> "", sent |-> "", local_status |-> "none"],
       [table |-> "project_statuses", id |-> NULL, of |-> project,
        organization_id |-> NoRef, project_id |-> NoRef, issue_id |-> NoRef,
        status |-> "", sent |-> "", local_status |-> "none"] >>

\* a request reaches a handler
Receive(kind, items) ==
    /\ server.pc = "idle"
    /\ eventsLeft >= 2
    /\ eventsLeft' = eventsLeft - 2
    /\ server' = [server EXCEPT
                    !.pc = IF checked_refs(kind, items) = {} THEN "insert" ELSE "check",
                    !.req = [kind |-> kind, items |-> items],
                    !.unchecked = checked_refs(kind, items),
                    !.tx = <<>>, !.ids = <<>>, !.idx = 1, !.reply = NoReply]
    /\ UNCHANGED clientVars

\* the handler returns: a transaction that was not committed is rolled back
Reply(status, ids, db, next) ==
    server' = [server EXCEPT !.pc = "idle", !.req = NoRequest,
                             !.unchecked = {}, !.tx = <<>>,
                             !.ids = <<>>, !.idx = 1, !.db = db,
                             !.nextId = next,
                             !.reply = [status |-> status, ids |-> ids]]

\* `for id in ids { ensure_*_access(..).await?; }`, in the set's order
CheckAccess ==
    /\ server.pc = "check"
    /\ \E ref \in server.unchecked :
          IF ensure_access(ref)
             THEN server' = [server EXCEPT
                               !.unchecked = @ \ {ref},
                               !.pc = IF server.unchecked = {ref}
                                         THEN "insert" ELSE "check"]
             ELSE Reply("forbidden", <<>>, server.db, server.nextId)
    /\ UNCHANGED <<clientVars, budgets>>

\* MigrationRepository::bulk_create_*: nothing to do for no inputs; the
\* projects are inserted in a transaction, the other kinds by one statement
\* on the pool
BulkInsert ==
    /\ server.pc = "insert"
    /\ LET kind == server.req.kind
           items == server.req.items
           rows == inserted_rows(kind, items, server.nextId)
           ids == [i \in DOMAIN rows |-> rows[i].id]
       IN  IF items = <<>>
              THEN Reply("ok", <<>>, server.db, server.nextId)
           ELSE IF kind = "projects"
              THEN server' = [server EXCEPT !.pc = "defaults", !.tx = rows,
                                            !.ids = ids, !.idx = 1,
                                            !.nextId = @ + Len(items)]
           ELSE Reply("ok", ids, server.db \o rows, server.nextId + Len(items))
    /\ UNCHANGED <<clientVars, budgets>>

\* mutant: the default rows are written through the pool, outside the
\* transaction
CreateDefaults_onPool ==
    /\ server.pc = "defaults"
    /\ server.idx <= Len(server.ids)
    /\ server' = [server EXCEPT
                    !.db = @ \o default_rows(server.ids[server.idx]),
                    !.idx = @ + 1]
    /\ UNCHANGED <<clientVars, budgets>>

\* the loop over the new ids, inside the transaction
CreateDefaults ==
    /\ server.pc = "defaults"
    /\ server.idx <= Len(server.ids)
    /\ server' = [server EXCEPT
                    !.tx = @ \o default_rows(server.ids[server.idx]),
                    !.idx = @ + 1]
    /\ UNCHANGED <<clientVars, budgets>>

\* tx.commit(), then Ok(ids)
Commit ==
    /\ server.pc = "defaults"
    /\ server.idx > Len(server.ids)
    /\ Reply("ok", server.ids, server.db \o server.tx, server.nextId)
    /\ UNCHANGED <<clientVars, budgets>>

\* a statement or the commit fails: `?` drops the transaction, the handler
\* answers 500
DatabaseError ==
    /\ server.pc \in {"insert", "defaults"}
    /\ server.req.items # <<>>
    /\ Reply("error", <<>>, server.db, server.nextId)
    /\ UNCHANGED <<clientVars, budgets>>

NextRemote ==
    \/ \E kind \in EndpointKinds :
          \E items \in SeqsUpTo(ItemsOf(kind), BATCH_SIZE) : Receive(kind, items)
    \/ CheckAccess
    \/ BulkInsert
    \/ CreateDefaults
    \/ Commit
    \/ DatabaseError

SpecRemote == Init /\ [][NextRemote]_vars
\* ---------------------------------------------------- concurrent invocations
\* start_migration builds a MigrationService per request and awaits
\* run_migration; neither checks that another run is in progress. A request
\* that arrives while a run sits at an await starts its own run; the first
\* run goes on when the second has ended.
StartSecond(S) ==
    /\ pc # "idle"
    /\ other = NoOther
    /\ other' = [saved |-> TRUE, pc |-> pc, project_ids |-> project_ids,
                 phase |-> phase, pending |-> pending, chunk |-> chunk,
                 idx |-> idx, requests |-> requests,
                 request_ids |-> request_ids, response |-> response,
                 attempts |-> attempts, report |-> report, calls |-> calls,
                 allFull |-> allFull, follows |-> follows, mode |-> mode,
                 before |-> before, startState |-> startState]
    /\ Begin(S, "run", migration_state)

\* the suspended run is scheduled again
ResumeFirst ==
    /\ pc = "idle"
    /\ other # NoOther
    /\ pc' = other.pc
    /\ project_ids' = other.project_ids
    /\ phase' = other.phase
    /\ pending' = other.pending
    /\ chunk' = other.chunk
    /\ idx' = other.idx
    /\ requests' = other.requests
    /\ request_ids' = other.request_ids
    /\ response' = other.response
    /\ attempts' = other.attempts
    /\ report' = other.report
    /\ calls' = other.calls
    /\ allFull' = other.allFull
    /\ follows' = other.follows
    /\ mode' = other.mode
    /\ before' = other.before
    /\ startState' = other.startState
    /\ other' = NoOther
    /\ prev' = NoPrev
    /\ UNCHANGED <<storeVars, outcome, lastOp, last_error, budgets>>

NextConcurrent ==
    \/ \E S \in ScopeChoices : run_migration(S)
    \/ \E S \in ScopeChoices : StartSecond(S)
    \/ ResumeFirst
    \/ LoadPhase
    \/ UpsertStep
    \/ ResolveStep
    \/ SendOk
    \/ MarkStep
    \/ SetLocal
    \/ EndBatch

SpecConcurrent == Init /\ [][NextConcurrent]_vars

\* ======================================================== properties
Row(et, lid) == CHOOSE r \in Matches(migration_state, et, lid) : TRUE
HasRow(et, lid) == Matches(migration_state, et, lid) # {}
Returned == pc = "idle" /\ outcome.kind = "report"
FourSections == {"projects", "tasks", "pr_merges", "workspaces"}

\* C1: each local entity (entity_type, local_id) is created in the remote
\* store at most once, across runs, resumes, aborted runs, HTTP retries
\* inside one bulk-create call and crashes.
C1_CreatedAtMostOnce ==
    \A i, j \in DOMAIN remote :
        (remote[i].kind = remote[j].kind /\ remote[i].src = remote[j].src)
            => i = j

\* C2: a run_migration that directly follows a returned run with the same
\* project set, in which every bulk-create call returned one id per request,
\* with no change in between, issues no bulk-create call and reports
\* migrated = 0 in all four phases.
C2_SecondRunSubmitsNothing ==
    follows =>
        /\ calls = <<>>
        /\ pc # "send"
        /\ \A sec \in FourSections : report[sec].migrated = 0

\* such a second run returned its report and had records to look at
C2_Witness ==
    /\ follows
    /\ Returned
    /\ report.projects.total > 0
    /\ report.tasks.skipped = report.tasks.total
    /\ report.tasks.total > 0

\* the local tasks of the projects in S / of the other projects
TasksOf(S) == {t.id : t \in {u \in Range(local.tasks) : u.project_id \in S}}
TasksOutside(S) == {t.id : t \in {u \in Range(local.tasks) : u.project_id \notin S}}

RemoteErrors == {"transport", "http5xx", "auth", "http4xx"}

\* the local ids submitted for entity type et by the calls of the run
Submitted(et) ==
    UNION {Range(calls[i].ids) : i \in {j \in DOMAIN calls : calls[j].kind = et}}

SubmittedOnce ==
    \A i, j \in DOMAIN calls :
        \A a \in DOMAIN calls[i].ids, b \in DOMAIN calls[j].ids :
            (calls[i].kind = calls[j].kind /\ calls[i].ids[a] = calls[j].ids[b])
                => (i = j /\ a = b)

ResumedAfterTaskBatchFailure ==
    /\ mode = "resume"
    /\ before.kind = "error"
    /\ before.error \in RemoteErrors
    /\ before.phase = "task"

\* C3: a resume_migration that follows a run aborted by the failing remote
\* call of a Task batch, and whose own calls all succeed, submits exactly the
\* in-scope tasks whose row was not Migrated when it began, each once, and no
\* task whose row was Migrated.
C3_ResumeSubmitsTheUnmigrated ==
    (ResumedAfterTaskBatchFailure /\ Returned /\ allFull) =>
        /\ Submitted("task") =
              {lid \in TasksOf(project_ids) :
                  \A r \in Matches(startState, "task", lid) : r.status # "migrated"}
        /\ SubmittedOnce

\* the second Task batch had failed: the resume finds tasks already Migrated
\* and tasks still to submit
C3_Witness ==
    /\ ResumedAfterTaskBatchFailure
    /\ Returned
    /\ allFull
    /\ Submitted("task") # {}
    /\ \E lid \in TasksOf(project_ids) :
          \E r \in Matches(startState, "task", lid) : r.status = "migrated"

C5_MigratedHasRemoteId ==
    \A r \in migration_state : r.status = "migrated" => r.remote_id # NULL

\* a run has marked a row Migrated with the id of a remote record
C5_Witness ==
    \E r \in migration_state :
        r.status = "migrated" /\ r.remote_id \in DOMAIN remote

SameKey(r, q) == r.entity_type = q.entity_type /\ r.local_id = q.local_id

\* C6: every step leaves at most one row per (entity_type, local_id), and a
\* row that exists before and after the step keeps its entity_type and
\* local_id.
C6_OneRowPerKey ==
    [][/\ \A r \in migration_state' : \A q \in migration_state' :
             SameKey(r, q) => r = q
       /\ \A r \in migration_state : \A q \in migration_state' :
             r.id = q.id => SameKey(r, q)]_vars

\* the upsert loop of a batch has passed over a record whose row existed
\* before the run
C6_Witness ==
    /\ pc \in {"resolve", "send"}
    /\ \E lid \in Range(chunk) :
          /\ Matches(startState, phase, lid) # {}
          /\ Cardinality(Matches(migration_state, phase, lid)) = 1

\* C7: when the call returned one id per request, the i-th submitted record
\* is marked Migrated with the i-th returned id, which is the id of the
\* remote record made from it; positions count submitted records only.
C7_PositionalIds ==
    (pc \in {"mark", "setlocal"} /\ Len(response) = Len(request_ids)) =>
        \A i \in 1..(idx - 1) :
            /\ HasRow(phase, request_ids[i])
            /\ Row(phase, request_ids[i]).status = "migrated"
            /\ Row(phase, request_ids[i]).remote_id = response[i]
            /\ remote[response[i]].kind = phase
            /\ remote[response[i]].src = request_ids[i]

\* all ids of a batch are recorded, and the first record of the batch had
\* been skipped before submission
C7_Witness ==
    /\ pc = "mark"
    /\ idx > ZipLen
    /\ Len(response) = Len(request_ids)
    /\ Len(request_ids) >= 1
    /\ Len(chunk) > Len(request_ids)
    /\ chunk[1] \notin Range(request_ids)

\* C8: a task whose project is not in the selected project-id set is never
\* included in a bulk-create call of that run.
C8_OutOfScopeNeverSubmitted ==
    /\ Submitted("task") \cap TasksOutside(project_ids) = {}
    /\ (pc = "send" /\ phase = "task") =>
           Range(request_ids) \cap TasksOutside(project_ids) = {}

\* a run submitted tasks while a local task lay outside its project set
C8_Witness ==
    /\ Submitted("task") # {}
    /\ TasksOutside(project_ids) # {}

C10_OutOfScopeCounted ==
    Returned =>
        /\ report.tasks.total =
              Cardinality(TasksOf(project_ids)) + Cardinality(TasksOutside(project_ids))
        /\ report.tasks.skipped >= Cardinality(TasksOutside(project_ids))
        /\ Len(report.warnings) >= Cardinality(TasksOutside(project_ids))

NothingInScopeDone ==
    \A r \in startState : r.local_id \in {"p4", "t2", "t5"}

\* C10 amended: tasks of a project outside the selected set are not counted:
\* tasks.total is the number of local tasks of the selected projects, and
\* with every call answered in full they add nothing to tasks.skipped and no
\* warning (3 selected projects, 5 tasks of which 2 of the unselected
\* project: projects 3/3, tasks.total = 3, migrated = 3, skipped = 0, no
\* warning).
C10_OnlyInScopeCounted ==
    Returned =>
        /\ report.tasks.total = Cardinality(TasksOf(project_ids))
        /\ report.tasks.migrated + report.tasks.skipped = report.tasks.total
        /\ report.warnings = <<>>
        /\ (project_ids = {"p1", "p2", "p3"} /\ NothingInScopeDone) =>
              /\ report.projects.total = 3
              /\ report.projects.migrated = 3
              /\ report.tasks.total = 3
              /\ report.tasks.migrated = 3
              /\ report.tasks.skipped = 0

\* the scenario: three of the four projects selected, nothing migrated before
C10_Witness ==
    /\ Returned
    /\ project_ids = {"p1", "p2", "p3"}
    /\ NothingInScopeDone
    /\ Cardinality(TasksOutside(project_ids)) = 2
    /\ report.tasks.migrated = 3

Rank(et) ==
    CASE et = "project" -> 1
      [] et = "task" -> 2
      [] et = "prmerge" -> 3
      [] OTHER -> 4

\* every (request id, returned id) pair of the answered batch is recorded
BatchRecorded ==
    \A i \in 1..ZipLen :
        /\ HasRow(phase, request_ids[i])
        /\ Row(phase, request_ids[i]).status = "migrated"
        /\ Row(phase, request_ids[i]).remote_id = response[i]
        /\ phase = "project" =>
               remote_project_id[request_ids[i]] = response[i]

\* C11: within one run the bulk-create calls are issued in the order Project
\* batches, Task batches, PrMerge batches, Workspace batches, one at a time,
\* and when the run moves on from an answered batch to the next batch, the
\* next phase or its report, every state-store write of that batch is done.
C11_PhasesInOrder ==
    [][/\ \A i, j \in DOMAIN calls' :
             i < j => Rank(calls'[i].kind) <= Rank(calls'[j].kind)
       /\ Len(calls') \in {0, Len(calls), Len(calls) + 1}
       /\ (pc = "mark" /\ pc' \notin {"mark", "setlocal"}
               /\ outcome'.kind \notin {"error", "crash"})
             => BatchRecorded]_vars

\* a run went through all four phases, with two Task batches
C11_Witness ==
    /\ Returned
    /\ Len(calls) >= 5
    /\ \A et \in EntityType : Submitted(et) # {}

\* the step in which the remote call of the batch fails for good: the run
\* leaves the call without a response, and not because the process died
CallFails ==
    /\ pc = "send"
    /\ pc' \notin {"send", "mark"}
    /\ outcome'.kind # "crash"

\* C12: when the remote call of a batch fails, run_migration returns the
\* error and no report, issues no further bulk-create call in that run, and
\* writes nothing to the state store: no record of the failing batch becomes
\* Migrated or Failed, attempt_count stays, and the rows written by earlier
\* batches and phases stay as they were.
C12_AbortOnRemoteFailure ==
    [][/\ CallFails =>
             /\ pc' = "idle"
             /\ outcome'.kind = "error"
             /\ outcome'.error \in RemoteErrors
             /\ outcome'.phase = phase
             /\ report' = DefaultReport
             /\ migration_state' = migration_state
             /\ remote_project_id' = remote_project_id
             /\ \A lid \in Range(request_ids) :
                   \A r \in Matches(migration_state', phase, lid) :
                       r.status # "migrated"
       /\ (pc = "idle" /\ outcome.kind = "error")
             => (calls' = calls \/ calls' = <<>>)]_vars

\* the second Task batch failed: tasks of the first batch are Migrated, the
\* task of the failing batch is Pending
C12_Witness ==
    /\ pc = "idle"
    /\ outcome.kind = "error"
    /\ outcome.error \in RemoteErrors
    /\ outcome.phase = "task"
    /\ \E r \in migration_state : r.entity_type = "task" /\ r.status = "migrated"
    /\ \E r \in migration_state : r.entity_type = "task" /\ r.status = "pending"

MigratedRow(et, lid) ==
    \E r \in Matches(migration_state, et, lid) : r.status = "migrated"

\* the prerequisite of a record has no Migrated state row: the project of a
\* task, the task of a PR merge's workspace, the project or task of a
\* workspace
PrereqMissing(et, lid) ==
    CASE et = "task" -> ~MigratedRow("project", TheTask(lid).project_id)
      [] et = "prmerge" ->
            ~MigratedRow("task", TheWorkspace(ThePrMerge(lid).workspace_id).task_id)
      [] et = "workspace" ->
            \/ ~MigratedRow("task", TheWorkspace(lid).task_id)
            \/ ~MigratedRow("project",
                            TheTask(TheWorkspace(lid).task_id).project_id)
      [] OTHER -> FALSE

\* C13: a record whose prerequisite has no Migrated state row is marked
\* Skipped with a reason, is left out of the batch's bulk-create call, adds 1
\* to the skipped counter of its phase and one warning to the report, and the
\* run goes on (it does not end with an error).
C13_UnresolvedIsSkipped ==
    [][/\ (pc = "resolve" /\ outcome'.kind \notin {"crash", "error"}
               /\ PrereqMissing(phase, chunk[idx]))
             => /\ Matches(migration_state', phase, chunk[idx]) # {}
                /\ \A r \in Matches(migration_state', phase, chunk[idx]) :
                      r.status = "skipped" /\ r.error_message # NoMessage
                /\ report'[SectionOf(phase)].skipped
                      = report[SectionOf(phase)].skipped + 1
                /\ Len(report'.warnings) = Len(report.warnings) + 1
                /\ chunk[idx] \notin Range(request_ids')
                /\ pc' = "idle" => outcome'.kind = "report"
       /\ pc = "send" =>
             \A lid \in Range(request_ids) : ~PrereqMissing(phase, lid)]_vars

\* a run skipped a task, migrated the other tasks and the workspace, and
\* returned its report with the warning
C13_Witness ==
    /\ Returned
    /\ Len(report.warnings) >= 1
    /\ report.tasks.skipped >= 1
    /\ \E r \in migration_state : r.entity_type = "task" /\ r.status = "skipped"
    /\ report.tasks.migrated >= 1
    /\ report.workspaces.migrated >= 1

\* C14: once a state row is Migrated, no step of a later run_migration or
\* resume_migration (the reset of resume included) changes its status or its
\* remote_id, and no bulk-create call is issued for its entity.
C14_MigratedIsFinal ==
    [][(pc # "idle" \/ pc' # "idle") =>
          /\ \A r \in migration_state :
                r.status = "migrated" =>
                   \E q \in migration_state' :
                      /\ q.id = r.id
                      /\ q.status = "migrated"
                      /\ q.remote_id = r.remote_id
          /\ Len(calls') > Len(calls) =>
                \A lid \in Range(calls'[Len(calls')].ids) :
                   \A r \in Matches(migration_state, calls'[Len(calls')].kind, lid) :
                      r.status # "migrated"]_vars

\* a resume began with Migrated rows, issued calls for what was left and
\* returned with those rows as they were
C14_Witness ==
    /\ Returned
    /\ mode = "resume"
    /\ calls # <<>>
    /\ \E r \in startState : r.status = "migrated"
    /\ \A r \in startState : r.status = "migrated" => r \in migration_state

\* C15: a step of a run changes the status of a row only if the row is
\* Pending at that moment, and a bulk-create call carries only records whose
\* row is Pending: a Skipped row is not submitted or marked Migrated by a
\* later run, a Failed row only after reset_failed made it Pending.
C15_OnlyFromPending ==
    [][pc # "idle" =>
          /\ \A r \in migration_state : \A q \in migration_state' :
                (q.id = r.id /\ q.status # r.status) => r.status = "pending"
          /\ Len(calls') > Len(calls) =>
                \A lid \in Range(calls'[Len(calls')].ids) :
                   \A r \in Matches(migration_state, calls'[Len(calls')].kind, lid) :
                      r.status = "pending"]_vars

\* C16: two invocations never interleave: an invocation made while another is
\* in progress is rejected with the 'migration already in progress' conflict
\* and performs no state-store write and no remote call.
C16_ConcurrentIsRejected ==
    [][other' # NoOther =>
          /\ outcome'.kind = "error"
          /\ outcome'.error = "in_progress"
          /\ migration_state' = migration_state
          /\ remote' = remote]_vars

\* ms2 is ms with every Failed row set to Pending and its error_message
\* cleared, and nothing else changed
ResetOf(ms, ms2) ==
    /\ \A r \in ms : \E q \in ms2 :
          /\ q.id = r.id
          /\ q.entity_type = r.entity_type
          /\ q.local_id = r.local_id
          /\ q.remote_id = r.remote_id
          /\ q.attempt_count = r.attempt_count
          /\ IF r.status = "failed"
                THEN q.status = "pending" /\ q.error_message = NoMessage
                ELSE q.status = r.status /\ q.error_message = r.error_message
    /\ \A q \in ms2 : \E r \in ms : r.id = q.id

\* C17: reset_failed sets every Failed row to Pending with error_message
\* cleared, leaves the remote_id and attempt_count of those rows and every
\* other row unchanged, and returns the number of rows it reset;
\* resume_migration is reset_failed followed by run_migration: it begins the
\* first phase as run_migration does, on the reset state.
C17_ResetFailedFrame ==
    [][/\ (pc = "idle" /\ pc' = "idle" /\ eventsLeft' # eventsLeft
               /\ credentials' = credentials
               /\ lastOp'.name = "reset_failed")
             => /\ ResetOf(migration_state, migration_state')
                /\ lastOp'.result =
                      Cardinality({r \in migration_state : r.status = "failed"})
       /\ (pc = "idle" /\ pc' # "idle" /\ mode' = "resume")
             => /\ ResetOf(migration_state, migration_state')
                /\ pc' = "load" /\ phase' = "project"
                /\ report' = DefaultReport /\ calls' = <<>>
       /\ (pc = "idle" /\ pc' # "idle" /\ mode' = "run")
             => /\ migration_state' = migration_state
                /\ pc' = "load" /\ phase' = "project"
                /\ report' = DefaultReport /\ calls' = <<>>]_vars

\* reset_failed has reset one Failed row, which keeps its attempt_count and
\* remote_id, next to rows that are Migrated
C17_Witness ==
    /\ lastOp.name = "reset_failed"
    /\ lastOp.result = 1
    /\ \E r \in migration_state : r.status = "pending" /\ r.attempt_count = 1
    /\ \E r \in migration_state : r.status = "migrated"

\* C18: get_status issues no remote call and performs no state-store write:
\* the state store, the local projects table and the remote store are the
\* same before and after the call.
C18_GetStatusReadOnly ==
    [][(pc = "idle" /\ lastOp'.name = "get_status") =>
          /\ migration_state' = migration_state
          /\ nextStateId' = nextStateId
          /\ remote_project_id' = remote_project_id
          /\ remote' = remote
          /\ calls' = calls]_vars

\* get_status was called on a store that holds a Failed row and other rows
C18_Witness ==
    /\ lastOp.name = "get_status"
    /\ \E r \in migration_state : r.status = "failed"
    /\ \E r \in migration_state : r.status = "migrated"
    /\ lastOp.result.tasks.total > 0

RowsOfType(et) == {r \in migration_state : r.entity_type = et}

CountsOf(sec, rows) ==
    /\ sec.total = Cardinality(rows)
    /\ sec.migrated = Cardinality({r \in rows : r.status = "migrated"})
    /\ sec.failed = Cardinality({r \in rows : r.status = "failed"})
    /\ sec.skipped = Cardinality({r \in rows : r.status = "skipped"})
    /\ Len(sec.errors) =
          Cardinality({r \in rows : r.status = "failed"
                                      /\ r.error_message # NoMessage})
    /\ \A r \in rows :
          (r.status = "failed" /\ r.error_message # NoMessage) =>
             \E i \in DOMAIN sec.errors :
                sec.errors[i] = [local_id |-> r.local_id,
                                 error |-> r.error_message]

\* C19 as stated: each section of the get_status report counts the rows of
\* its entity type.
C19_CountsAllRows ==
    lastOp.name = "get_status" =>
        \A et \in EntityType :
            CountsOf(lastOp.result[SectionOf(et)], RowsOfType(et))

\* C19 amended: the tasks, pr_merges and workspaces sections count the rows
\* of their entity type, the projects section the Project rows whose
\* local_id is in the project set passed to get_status: migrated, failed and
\* skipped are the numbers of those rows with that status, total the number
\* of those rows (Pending rows only in total), errors one {local_id, error}
\* per Failed row with a message; warnings is empty.
C19_CountsSectionRows ==
    lastOp.name = "get_status" =>
        /\ \A et \in EntityType \ {"project"} :
              CountsOf(lastOp.result[SectionOf(et)], RowsOfType(et))
        /\ CountsOf(lastOp.result.projects,
                    {r \in RowsOfType("project") :
                        r.local_id \in lastOp.project_ids})
        /\ lastOp.result.warnings = <<>>

\* get_status after a partial run with one Failed task: tasks.failed = 1
\* with its errors entry, and a Pending task row counted in total only
C19_Witness ==
    /\ lastOp.name = "get_status"
    /\ lastOp.result.tasks.failed = 1
    /\ Len(lastOp.result.tasks.errors) = 1
    /\ lastOp.result.tasks.total >
          lastOp.result.tasks.migrated + lastOp.result.tasks.failed
             + lastOp.result.tasks.skipped

\* C20: after a resume_migration whose bulk-create calls were all answered in
\* full and which returned its report, and before any later store operation
\* (prev is forgotten by one), no task row is Failed: the returned report and a following get_status both
\* show tasks.failed = 0.
C20_ResumeLeavesNoFailedTask ==
    (mode = "resume" /\ Returned /\ allFull /\ prev.ok) =>
        /\ report.tasks.failed = 0
        /\ \A r \in RowsOfType("task") : r.status # "failed"
        /\ lastOp.name = "get_status" => lastOp.result.tasks.failed = 0

\* a task row had been Failed (its attempt_count is 1) when the resume began;
\* the resume returned and get_status was called after it
C20_Witness ==
    /\ mode = "resume"
    /\ Returned
    /\ allFull
    /\ prev.ok
    /\ lastOp.name = "get_status"
    /\ lastOp.result.tasks.total > 0
    /\ \E r \in RowsOfType("task") : r.attempt_count = 1

\* an attempt of the current call failed in this step
AttemptFails ==
    /\ pc = "send"
    /\ pc' # "mark"
    /\ outcome'.kind # "crash"

\* C21: a bulk-create request is sent at most 3 times (one attempt and at
\* most 2 retries); it is retried only after a transport error, a timeout or
\* an HTTP 5xx; after a 401/403 or another 4xx the call ends with that error.
C21_BoundedRetries ==
    [][/\ attempts' <= 3
       /\ pc' = "send" => attempts' <= 2
       /\ (AttemptFails /\ pc' = "send")
             => /\ last_error' \in {"transport", "timeout", "http5xx"}
                /\ attempts' = attempts + 1
       /\ (AttemptFails /\ last_error' \in {"auth", "http4xx"})
             => /\ pc' = "idle"
                /\ outcome'.kind = "error"
                /\ outcome'.error = last_error']_vars

\* the third attempt of a call was answered, after two transient failures
C21_Witness ==
    /\ pc = "mark"
    /\ attempts = 3
    /\ last_error \in {"transport", "http5xx"}

\* C22: with no credentials available run_migration fails with the
\* authentication error (not with a transport or HTTP-status error, and not
\* with a report), without a retry and without creating a remote record.
C22_NoCredentialsFails ==
    [][(~credentials /\ pc # "idle") =>
          /\ remote' = remote
          /\ pc = "send" => pc' # "send"
          /\ (pc' = "idle" /\ outcome'.kind # "crash"
                 /\ outcome'.error # "storage")
                => (outcome'.kind = "error" /\ outcome'.error = "auth")]_vars

\* C23: when a state-store operation fails during a run, the run stops at
\* that point and returns the storage error with no report, and no later
\* bulk-create call is issued in that run.
C23_StorageErrorIsFatal ==
    [][/\ (last_error # "storage" /\ last_error' = "storage")
             => /\ pc' = "idle"
                /\ outcome'.kind = "error"
                /\ outcome'.error = "storage"
                /\ outcome'.phase = phase
                /\ report' = DefaultReport
                /\ calls' = calls
                /\ migration_state' = migration_state
       /\ (pc = "idle" /\ outcome.error = "storage")
             => (calls' = calls \/ calls' = <<>>)]_vars

\* a store call failed in the Task phase, after the Project call was made
\* and before the Task call
C23_Witness ==
    /\ pc = "idle"
    /\ outcome.error = "storage"
    /\ outcome.phase = "task"
    /\ Len(calls) = 1
    /\ \E r \in migration_state : r.entity_type = "task" /\ r.status = "pending"

\* the step is a mark_failed call for the key of row r
MarkFailedOf(r) ==
    \E k \in OpKeys : OpMarkFailed(k) /\ r \in Matches(migration_state, k[1], k[2])

\* C24: mark_failed adds exactly 1 to the attempt_count of the entity's row
\* and leaves it Failed with the error message; a new row starts at 0 and no
\* other operation changes a row's attempt_count, so that the count of a row
\* is the number of mark_failed calls for its entity since it was created.
C24_AttemptCountFrame ==
    [][/\ \A r \in migration_state :
             MarkFailedOf(r) =>
                \E r2 \in migration_state' :
                   /\ r2.id = r.id
                   /\ r2.attempt_count = r.attempt_count + 1
                   /\ r2.status = "failed"
                   /\ r2.error_message # NoMessage
       /\ \A r \in migration_state : \A r2 \in migration_state' :
             (r2.id = r.id /\ ~MarkFailedOf(r))
                => r2.attempt_count = r.attempt_count
       /\ \A r2 \in migration_state' :
             (\A r \in migration_state : r.id # r2.id)
                => r2.attempt_count = 0]_vars

\* mark_failed was called twice for an entity that a run had migrated
C24_Witness ==
    /\ lastOp.name = "mark_failed"
    /\ \E r \in migration_state :
          r.attempt_count = 2 /\ r.status = "failed" /\ r.remote_id # NULL
    /\ \E r \in migration_state : r.status = "migrated" /\ r.attempt_count = 0

LocalIds ==
    {x.id : x \in Range(local.projects)} \cup {x.id : x \in Range(local.tasks)}
       \cup {x.id : x \in Range(local.workspaces)}
       \cup {x.id : x \in Range(local.pr_merges)}

\* C25: get_remote_id returns a remote id exactly when a row for the key
\* exists with status Migrated, and then it is that row's remote_id; for a
\* Pending, Failed or Skipped row and for an absent key it returns none.
C25_RemoteIdOnlyWhenMigrated ==
    \A et \in EntityType : \A lid \in LocalIds :
       LET rid == get_remote_id(migration_state, et, lid)
       IN  /\ rid # NULL <=>
                 \E r \in migration_state :
                    r.entity_type = et /\ r.local_id = lid /\ r.status = "migrated"
           /\ \A r \in migration_state :
                 (r.entity_type = et /\ r.local_id = lid /\ r.status = "migrated")
                    => rid = r.remote_id

\* one key is answered with its row's remote id, a key whose row was
\* migrated and then marked Failed is answered with none although the row
\* still holds a remote id, as are a Pending row and an absent key
C25_Witness ==
    /\ \E r \in migration_state :
          /\ r.status = "migrated"
          /\ get_remote_id(migration_state, r.entity_type, r.local_id) = r.remote_id
    /\ \E r \in migration_state :
          /\ r.status = "failed"
          /\ r.remote_id # NULL
          /\ get_remote_id(migration_state, r.entity_type, r.local_id) = NULL
    /\ \E et \in EntityType : \E lid \in LocalIds :
          ~HasRow(et, lid) /\ get_remote_id(migration_state, et, lid) = NULL

\* C26: upsert on a key that has a row leaves that row's status, remote_id,
\* error_message and attempt_count as they were and adds no row; on a key
\* without a row it inserts one Pending row with no remote_id and
\* attempt_count 0; upsert again on the same key changes nothing more.
C26_UpsertIdempotent ==
    [][\A k \in OpKeys :
          OpUpsert(k) =>
             /\ IF HasRow(k[1], k[2])
                   THEN /\ Cardinality(migration_state') = Cardinality(migration_state)
                        /\ \E r2 \in migration_state' :
                              /\ r2.id = Row(k[1], k[2]).id
                              /\ r2.status = Row(k[1], k[2]).status
                              /\ r2.remote_id = Row(k[1], k[2]).remote_id
                              /\ r2.error_message = Row(k[1], k[2]).error_message
                              /\ r2.attempt_count = Row(k[1], k[2]).attempt_count
                   ELSE \E r2 \in migration_state' :
                           /\ r2 \notin migration_state
                           /\ migration_state' = migration_state \cup {r2}
                           /\ r2.entity_type = k[1] /\ r2.local_id = k[2]
                           /\ r2.status = "pending"
                           /\ r2.remote_id = NULL
                           /\ r2.attempt_count = 0
             /\ upsert(migration_state', nextStateId', k[1], k[2]) = migration_state'
             /\ \A r \in migration_state : r \in migration_state']_vars

\* the only row was created, marked Failed, and then upserted again
C26_Witness ==
    /\ lastOp.name = "upsert"
    /\ Cardinality(migration_state) = 1
    /\ \E r \in migration_state :
          r.status = "failed" /\ r.attempt_count = 1 /\ r.error_message # NoMessage

\* the step in which run_migration returns Ok(report)
ReturnsReport == pc # "idle" /\ pc' = "idle" /\ outcome'.kind = "report"

\* the in-scope records of a type whose row is Migrated in store ms
MigratedIn(ms, et, S) ==
    {lid \in Range(InScope(et, S)) : AlreadyMigrated(ms, et, lid)}

\* C27: in a report returned by a run in which every bulk-create call
\* returned one id per request, each section has total = migrated + skipped,
\* failed = 0 and no errors; a record that was Migrated before the run is
\* counted in total and in skipped, and not in migrated.
C27_ReportAddsUp ==
    [][(ReturnsReport /\ allFull') =>
          \A et \in EntityType :
             LET sec == report'[SectionOf(et)]
                 scope == Range(InScope(et, project_ids))
                 old == MigratedIn(startState, et, project_ids)
                 new == MigratedIn(migration_state', et, project_ids) \ old
             IN  /\ sec.total = sec.migrated + sec.skipped
                 /\ sec.failed = 0
                 /\ sec.errors = <<>>
                 /\ sec.total = Cardinality(scope)
                 /\ sec.migrated = Cardinality(new)
                 /\ sec.skipped = Cardinality(scope \ new)
                 /\ sec.skipped >= Cardinality(old)]_vars

\* a returned report that counts one project as skipped because an earlier
\* run had migrated it, and the other project as migrated
C27_Witness ==
    /\ Returned
    /\ allFull
    /\ report.projects.total = 2
    /\ report.projects.migrated = 1
    /\ report.projects.skipped = 1
    /\ Cardinality(MigratedIn(startState, "project", project_ids)) = 1

\* C28: whenever run_migration returns a report, every in-scope record has
\* a state row that is Migrated or Skipped and none is left Pending,
\* whatever number of ids the remote returned for each batch.
C28_NoPendingAfterReport ==
    [][ReturnsReport =>
          \A et \in EntityType : \A lid \in Range(InScope(et, project_ids)) :
             \E r \in Matches(migration_state', et, lid) :
                r.status \in {"migrated", "skipped"}]_vars

\* the rows of the entities outside the project set S: a project not in S,
\* or a task, PR merge or workspace of such a project
OutsideRows(ms, S) ==
    {r \in ms : r.local_id \notin Range(InScope(r.entity_type, S))}

\* a step of an invocation: its start, or a step of its run
InvocationStep == pc # "idle" \/ pc' # "idle"

\* C29 (as stated): run_migration and resume_migration called with project
\* set S create or change no state row of an entity outside S.
C29_OutsideScopeUnchanged ==
    [][InvocationStep =>
          OutsideRows(migration_state', project_ids')
             = OutsideRows(migration_state, project_ids')]_vars

\* C29 (amended): run_migration with project set S creates or changes no
\* state row of an entity outside S; resume_migration creates none and
\* changes exactly the Failed ones, which its start resets to Pending with
\* the error cleared, and nothing else of them.
C29_OutsideScopeOnlyReset ==
    [][InvocationStep =>
          OutsideRows(migration_state', project_ids')
             = IF pc = "idle" /\ mode' = "resume"
                  THEN {IF r.status = "failed"
                           THEN [r EXCEPT !.status = "pending",
                                          !.error_message = NoMessage]
                           ELSE r : r \in OutsideRows(migration_state, project_ids')}
                  ELSE OutsideRows(migration_state, project_ids')]_vars

\* a resume for a project set is in progress, and the row of an entity
\* outside the set that had been marked Failed is Pending
C29_Witness ==
    /\ mode = "resume"
    /\ pc # "idle"
    /\ Len(calls) >= 1
    /\ \E r \in OutsideRows(migration_state, project_ids) :
          r.status = "pending" /\ r.attempt_count = 1 /\ r.error_message = NoMessage

\* the second loop of migrate_workspace_batch handles one workspace
ResolvesWorkspace ==
    /\ pc = "resolve"
    /\ phase = "workspace"
    /\ outcome'.kind \notin {"crash", "error"}

\* the workspace handled by the step was pushed onto the batch's requests
Pushed ==
    /\ pc' = "send" \/ (pc' = "resolve" /\ idx' = idx + 1)
    /\ Len(request_ids') = Len(request_ids) + 1
    /\ request_ids'[Len(request_ids')] = chunk[idx]

MigratedRemoteId(et, lid) ==
    IF MigratedRow(et, lid) THEN Row(et, lid).remote_id ELSE NULL

\* the parent references request rq of record lid must carry in phase et
ParentsResolved(et, lid, rq) ==
    CASE et = "task" ->
            /\ rq.project_id # NULL
            /\ rq.project_id = MigratedRemoteId("project", TheTask(lid).project_id)
      [] et = "prmerge" ->
            /\ WorkspaceById(ThePrMerge(lid).workspace_id) # {}
            /\ rq.issue_id # NULL
            /\ rq.issue_id = MigratedRemoteId("task",
                                 TheWorkspace(ThePrMerge(lid).workspace_id).task_id)
      [] et = "workspace" ->
            /\ rq.project_id # NULL
            /\ rq.issue_id # NULL
            /\ rq.project_id = MigratedRemoteId("project",
                                   TheTask(TheWorkspace(lid).task_id).project_id)
            /\ rq.issue_id = MigratedRemoteId("task", TheWorkspace(lid).task_id)
      [] OTHER -> TRUE

AbortedByRemote ==
    /\ pc = "idle"
    /\ outcome.kind = "error"
    /\ outcome.error \in RemoteErrors

\* every in-scope record has a row that is Migrated or Skipped
AllSettled ==
    \A et \in EntityType : \A lid \in Range(InScope(et, project_ids)) :
       \E r \in Matches(migration_state, et, lid) :
          r.status \in {"migrated", "skipped"}

\* C32: after a run aborted by a remote failure, if the remote eventually
\* accepts every batch, repeating resume_migration eventually returns a
\* report and leaves every in-scope entity Migrated (or Skipped), and from
\* then on no in-scope entity is Pending or Failed again.
C32_ResumeConverges ==
    /\ AbortedByRemote ~> (Returned /\ mode = "resume" /\ AllSettled)
    /\ AbortedByRemote ~> [](AllSettled)

\* a resume that followed an aborted invocation has submitted records and
\* returned its report with every in-scope record settled
C32_Witness ==
    /\ Returned
    /\ mode = "resume"
    /\ before.kind = "error"
    /\ before.error \in RemoteErrors
    /\ calls # <<>>
    /\ project_ids = ProjectIds
    /\ AllSettled

\* C33: the tasks, pr_merges and workspaces sections of get_status(S) count
\* only the state rows of entities that belong to a project in S, as the
\* projects section counts only the projects in S.
C33_StatusScopedByProject ==
    lastOp.name = "get_status" =>
        \A et \in EntityType \ {"project"} :
           CountsOf(lastOp.result[SectionOf(et)],
                    {r \in RowsOfType(et) :
                        r.local_id \in Range(InScope(et, lastOp.project_ids))})

\* the in-scope records of the phase whose row is not Migrated, in the order
\* of the local record list
NotMigratedInOrder(et) ==
    SelectSeq(InScope(et, project_ids), LAMBDA lid : ~MigratedRow(et, lid))

\* the step cuts a new batch
CutsBatch == pc' = "upsert" /\ pc # "upsert"

\* C34: every bulk-create call carries at most BATCH_SIZE items, and each
\* in-scope record that is not Migrated is placed in exactly one batch,
\* batches being cut in the order of the local record list: the first batch
\* of a phase and the records left after it are that list, each later batch
\* is cut from the front of what was left, a batch is shorter than
\* BATCH_SIZE only when nothing is left, and a phase ends, or the run returns
\* its report, only when nothing is left.
C34_BatchesPartitionInOrder ==
    [][/\ pc' = "send" =>
             /\ Len(requests') <= BATCH_SIZE
             /\ Range(request_ids') \subseteq Range(chunk')
       /\ CutsBatch =>
             /\ chunk' # <<>>
             /\ Len(chunk') <= BATCH_SIZE
             /\ Len(chunk') = BATCH_SIZE \/ pending' = <<>>
             /\ chunk' \o pending' =
                   IF pc = "load" THEN NotMigratedInOrder(phase) ELSE pending
       /\ (pc \notin {"idle", "load"} /\ pc' \notin {"idle", "load"} /\ ~CutsBatch)
             => (chunk' = chunk /\ pending' = pending)
       /\ (pc = "load" /\ ~CutsBatch /\ outcome'.kind \notin {"crash", "error"})
             => NotMigratedInOrder(phase) = <<>>
       /\ (pc \notin {"idle", "load"}
              /\ (pc' = "load" \/ (pc' = "idle" /\ outcome'.kind = "report")))
             => pending = <<>>]_vars

\* the second Task batch of a run has been cut, after a first call that
\* carried BATCH_SIZE issues
C34_Witness ==
    /\ pc = "upsert"
    /\ phase = "task"
    /\ chunk # <<>>
    /\ \E i \in DOMAIN calls :
          calls[i].kind = "task" /\ Len(calls[i].ids) = BATCH_SIZE
    /\ \A i \in DOMAIN calls : \A j \in DOMAIN chunk :
          chunk[j] \notin Range(calls[i].ids)

\* C35: at every point where no run is executing (after a returned report,
\* an aborted run or a crash), a project whose state row is Migrated with
\* the remote id r of the record the remote created for it has its local
\* project record's remote_project_id equal to r.
C35_LocalProjectIdMatches ==
    pc = "idle" =>
        \A r \in RowsOfType("project") :
           (/\ r.status = "migrated"
            /\ r.remote_id \in DOMAIN remote
            /\ remote[r.remote_id].src = r.local_id)
              => remote_project_id[r.local_id] = r.remote_id

\* ------------------------------------------------------------------ C36
\* the rows of the database a step has added
AddedRows == SubSeq(server'.db, Len(server.db) + 1, Len(server'.db))

\* the step ends the handling of a request
Answers == server.pc # "idle" /\ server'.pc = "idle"

\* every project of the request is in the added rows with its default
\* tags and its default statuses, under the id the reply gives at its place
ProjectsPersisted ==
    LET items == server.req.items
        ids == server'.reply.ids
    IN  /\ Len(ids) = Len(items)
        /\ Len(AddedRows) = 3 * Len(items)
        /\ \A i \in DOMAIN items :
              /\ \E j \in DOMAIN AddedRows :
                    /\ AddedRows[j].table = "projects"
                    /\ AddedRows[j].id = ids[i]
                    /\ AddedRows[j].organization_id = items[i].organization_id
              /\ \A t \in {"tags", "project_statuses"} :
                    \E j \in DOMAIN AddedRows :
                       AddedRows[j].table = t /\ AddedRows[j].of = ids[i]
        /\ \A i, j \in DOMAIN ids : ids[i] = ids[j] => i = j

\* C36: a projects bulk-create is all-or-nothing on the remote side: the
\* database changes only in the step that answers the request, and that
\* step either adds every project with its default tags and statuses and
\* answers one id per project, or adds nothing and answers no id
C36_ProjectsAllOrNothing ==
    [][server.req.kind = "projects" =>
          /\ Len(server'.db) >= Len(server.db)
          /\ SubSeq(server'.db, 1, Len(server.db)) = server.db
          /\ IF Answers
                THEN \/ server'.reply.status = "ok" /\ ProjectsPersisted
                     \/ /\ server'.reply.status # "ok"
                        /\ server'.reply.ids = <<>>
                        /\ server'.db = server.db
                ELSE server'.db = server.db]_vars

\* a projects request failed after its rows were written in the
\* transaction: ids were drawn, nothing is in the database
C36_Witness ==
    /\ server.reply.status = "error"
    /\ server.nextId > 1
    /\ server.db = <<>>

\* ------------------------------------------------------------------ C37
\* the organizations, projects and issues the items of a batch refer to
referenced(items) ==
    UNION {{items[i].organization_id, items[i].project_id, items[i].issue_id}
              : i \in DOMAIN items} \ {NoRef}

\* C37: a bulk-migration endpoint adds rows to the database only for a
\* batch whose every referenced organization, project and issue passes the
\* caller's access check
C37_InsertOnlyAfterAccess ==
    [][server'.db # server.db =>
          \A ref \in referenced(server.req.items) : ensure_access(ref)]_vars

\* ------------------------------------------------------------------ C38
\* the remote state a stored pull request has for the local merge status
\* it was made from
LocalStatusKept(row) ==
    /\ row.status \in {"Open", "Merged", "Closed"}
    /\ row.local_status = "Open" => row.status = "Open"
    /\ row.local_status = "Merged" => row.status = "Merged"
    /\ row.local_status = "Closed" => row.status = "Closed"
    /\ row.local_status = "Unknown" => row.status = "Open"

PullRequestRows ==
    {server.db[i] : i \in {j \in DOMAIN server.db :
                              server.db[j].table = "pull_requests"}}

\* C38 as stated: every local status is stored as its remote state, Unknown
\* as Open, and every name other than open, merged and closed is stored
\* as Open
C38_OtherNamesOpen ==
    \A row \in PullRequestRows :
       /\ LocalStatusKept(row)
       /\ row.sent \notin {"open", "merged", "closed"} => row.status = "Open"

\* C38 amended: every local status is stored as its remote state, Unknown
\* as Open; the names are matched without regard to letter case, so
\* Merged is stored as Merged like merged, and a name that is none of
\* merged and closed in any letter case is stored as Open
C38_StatusMapping ==
    \A row \in PullRequestRows :
       /\ LocalStatusKept(row)
       /\ row.sent \in {"merged", "Merged"} => row.status = "Merged"
       /\ row.sent = "closed" => row.status = "Closed"
       /\ row.sent \in {"open", "Draft"} => row.status = "Open"

\* one request stored an Unknown local status and the name Merged
C38_Witness ==
    /\ \E row \in PullRequestRows :
          row.local_status = "Unknown" /\ row.status = "Open"
    /\ \E row \in PullRequestRows :
          row.sent = "Merged" /\ row.status = "Merged"
====
